---- MODULE Spec2Model ----
(***************************************************************************)
(* A model of the long-running-operation convergence code of azvm_manager: *)
(*   - send_vm_command (main.rs) with VmClient::command / is_complete      *)
(*     (vm_client.rs): the VM start/stop batch and its status convergence; *)
(*   - process_recovery_cmd (main.rs): the vault refresh, its binary wait, *)
(*     and the per-item backup registration loop.                          *)
(* Every await of the source is one step of the model; the synchronous     *)
(* code that follows an await up to the next one belongs to the same step. *)
(* Strings are sequences of one-character strings, so that substring       *)
(* search and integer parsing are computed, not assumed.                   *)
(***************************************************************************)
EXTENDS Integers, Sequences, FiniteSets, TLC

\* ------------------------------------------------------------------------
\* Bounds of the model
\* ------------------------------------------------------------------------
MaxVms == 2
MaxRounds == 3
MaxListed == 2
MaxPolls == 2

\* Option<T>: None is the empty tuple, Some(x) the one-element tuple
None == <<>>
Some(x) == <<x>>
Unwrap(o) == o[1]

Names == {"vm-a", "vm-b"}

\* ------------------------------------------------------------------------
\* Strings
\* ------------------------------------------------------------------------
RECURSIVE Chars(_, _)
\* the characters of a word list, joined by single blanks
Chars(words, acc) ==
    IF words = <<>> THEN acc
    ELSE Chars(Tail(words), IF acc = <<>> THEN Head(words) ELSE acc \o <<" ">> \o Head(words))

S_VM == <<"V", "M">>
S_running == <<"r", "u", "n", "n", "i", "n", "g">>
S_starting == <<"s", "t", "a", "r", "t", "i", "n", "g">>
S_deallocated == <<"d", "e", "a", "l", "l", "o", "c", "a", "t", "e", "d">>
S_deallocating == <<"d", "e", "a", "l", "l", "o", "c", "a", "t", "i", "n", "g">>
S_Unknown == <<"U", "n", "k", "n", "o", "w", "n">>
S_PowerState == <<"P", "o", "w", "e", "r", "S", "t", "a", "t", "e">>
S_ProvisioningState == <<"P", "r", "o", "v", "i", "s", "i", "o", "n", "i", "n", "g", "S", "t", "a", "t", "e">>

\* str::contains: hay has needle as a contiguous substring
StrContains(hay, needle) ==
    \E i \in 0..(Len(hay) - Len(needle)) :
        \A j \in 1..Len(needle) : hay[i + j] = needle[j]

\* ------------------------------------------------------------------------
\* send_vm_command: helpers
\* ------------------------------------------------------------------------
VmCommands == {"Start", "Stop"}

target_state(cmd) ==
    IF cmd = "Start" THEN Chars(<<S_VM, S_running>>, <<>>)
    ELSE Chars(<<S_VM, S_deallocated>>, <<>>)

\* the instance views a status query may return: each is the list of
\* InstanceViewStatus entries (code, display_status), either field optional
StatusEntry(code, display) == [code |-> code, display_status |-> display]

C_Power == S_PowerState \o <<"/", "x">>
C_Prov == S_ProvisioningState \o <<"/", "s">>
D_Running == Chars(<<S_VM, S_running>>, <<>>)
D_Starting == Chars(<<S_VM, S_starting>>, <<>>)
D_Deallocated == Chars(<<S_VM, S_deallocated>>, <<>>)
D_Deallocating == Chars(<<S_VM, S_deallocating>>, <<>>)
D_Prefixed == <<"A", "z", ":", " ">> \o D_Running

Views ==
    { <<>>,
      <<StatusEntry(Some(C_Prov), Some(D_Running))>>,
      <<StatusEntry(Some(C_Power), None)>>,
      <<StatusEntry(None, Some(D_Running)), StatusEntry(Some(C_Power), Some(D_Starting))>>,
      <<StatusEntry(Some(C_Prov), Some(D_Starting)), StatusEntry(Some(C_Power), Some(D_Running))>>,
      <<StatusEntry(Some(C_Power), Some(D_Prefixed))>>,
      <<StatusEntry(Some(C_Power), Some(D_Starting)), StatusEntry(Some(C_Power), Some(D_Running))>>,
      <<StatusEntry(Some(C_Power), Some(D_Deallocating))>>,
      <<StatusEntry(Some(C_Power), Some(D_Deallocated))>> }

RECURSIVE PowerStatus(_)
\* the display status is_complete evaluates: the first entry whose code
\* contains "PowerState", "Unknown" for a missing display status or entry
PowerStatus(statuses) ==
    IF statuses = <<>> THEN S_Unknown
    ELSE LET s == Head(statuses) IN
         IF s.code # None /\ StrContains(Unwrap(s.code), S_PowerState)
         THEN (IF s.display_status = None THEN S_Unknown ELSE Unwrap(s.display_status))
         ELSE PowerStatus(Tail(statuses))

\* a predicate that wants the display status to be the target, not to contain it
IsDone_Exact(statuses, state) == PowerStatus(statuses) = state

\* vm_client.rs:46-53: status.contains(state)
IsDone(statuses, state) == StrContains(PowerStatus(statuses), state)

\* a removal that drops every occurrence of name (Vec::retain)
RemoveFirst_All(names, name) ==
    IF names = <<>> THEN names
    ELSE LET F[i \in 0..Len(names)] ==
                 IF i = 0 THEN <<>>
                 ELSE IF names[i] = name THEN F[i - 1] ELSE Append(F[i - 1], names[i])
         IN F[Len(names)]

\* Vec::remove(pos) for the first position holding name, if any
RemoveFirst(names, name) ==
    IF \E p \in 1..Len(names) : names[p] = name
    THEN LET pos == CHOOSE p \in 1..Len(names) :
                        names[p] = name /\ \A q \in 1..(p - 1) : names[q] # name
         IN SubSeq(names, 1, pos - 1) \o SubSeq(names, pos + 1, Len(names))
    ELSE names

RECURSIVE RemoveDone_Reversed(_, _)
\* a removal that leaves the names that stay in reverse order
RemoveDone_Reversed(names, temp) ==
    IF temp = <<>> THEN [i \in 1..Len(names) |-> names[Len(names) + 1 - i]]
    ELSE RemoveDone_Reversed(RemoveFirst(names, Head(temp)), Tail(temp))

\* a removal loop that stops after the first name of temp
RemoveDone_FirstOnly(names, temp) ==
    IF temp = <<>> THEN names ELSE RemoveFirst(names, Head(temp))

RECURSIVE RemoveDone(_, _)
\* the removal loop over temp (the names reported done in this round)
RemoveDone(names, temp) ==
    IF temp = <<>> THEN names
    ELSE RemoveDone(RemoveFirst(names, Head(temp)), Tail(temp))

RECURSIVE SeqsUpTo(_, _)
SeqsUpTo(S, n) ==
    IF n = 0 THEN {<<>>}
    ELSE LET shorter == SeqsUpTo(S, n - 1) IN
         shorter \cup {Append(s, x) : s \in {t \in shorter : Len(t) = n - 1}, x \in S}

NameLists == SeqsUpTo(Names, MaxVms)

\* ------------------------------------------------------------------------
\* process_recovery_cmd: helpers (response headers, url::Url, u64 parsing)
\* ------------------------------------------------------------------------
\* first position of character c in s at or after position from, 0 if none
IndexFrom(s, c, from) ==
    IF \E i \in from..Len(s) : s[i] = c
    THEN CHOOSE i \in from..Len(s) : s[i] = c /\ \A j \in from..(i - 1) : s[j] # c
    ELSE 0

\* first position at or after from of a character that ends the current
\* URL component ("/", "?" or "#"), Len(s) + 1 if none
ComponentEnd(s, from, stops) ==
    IF \E i \in from..Len(s) : s[i] \in stops
    THEN CHOOSE i \in from..Len(s) : s[i] \in stops /\ \A j \in from..(i - 1) : s[j] \notin stops
    ELSE Len(s) + 1

SchemeChars ==
    {"a", "b", "c", "d", "e", "f", "g", "h", "i", "j", "k", "l", "m", "n", "o", "p", "q",
     "r", "s", "t", "u", "v", "w", "x", "y", "z"}

UrlError(e) == [ok |-> FALSE, err |-> e, base |-> FALSE, path |-> <<>>]
UrlOk(base, path) == [ok |-> TRUE, err |-> "", base |-> base, path |-> path]

\* Url::parse of an absolute URL string: "scheme://host/path?query",
\* "scheme:/path" or the cannot-be-a-base form "scheme:opaque"
UrlParse(s) ==
    LET colon == IndexFrom(s, ":", 1) IN
    IF colon <= 1 \/ \E i \in 1..(colon - 1) : s[i] \notin SchemeChars
    THEN UrlError("RelativeUrlWithoutBase")
    ELSE IF Len(s) >= colon + 2 /\ s[colon + 1] = "/" /\ s[colon + 2] = "/"
    THEN LET hostEnd == ComponentEnd(s, colon + 3, {"/", "?", "#"})
             pathEnd == ComponentEnd(s, hostEnd, {"?", "#"})
             path == SubSeq(s, hostEnd, pathEnd - 1)
         IN IF hostEnd = colon + 3 THEN UrlError("EmptyHost")
            ELSE UrlOk(TRUE, IF path = <<>> THEN <<"/">> ELSE path)
    ELSE LET pathEnd == ComponentEnd(s, colon + 1, {"?", "#"})
             path == SubSeq(s, colon + 1, pathEnd - 1)
         IN UrlOk(path # <<>> /\ path[1] = "/", path)

RECURSIVE Split(_, _)
\* str::split(c): the pieces of s between the occurrences of c
Split(s, c) ==
    LET i == IndexFrom(s, c, 1) IN
    IF i = 0 THEN <<s>>
    ELSE <<SubSeq(s, 1, i - 1)>> \o Split(SubSeq(s, i + 1, Len(s)), c)

\* Url::path_segments: None for a cannot-be-a-base URL, else the path split
\* at "/" after its leading "/"
PathSegments(url) ==
    IF url.base THEN Some(Split(Tail(url.path), "/")) ELSE None

\* the first path segment instead of the last
Last_First(seq) == seq[1]

\* Iterator::last
Last(seq) == seq[Len(seq)]

Digits == <<"0", "1", "2", "3", "4", "5", "6", "7", "8", "9">>
DigitVal(c) == (CHOOSE d \in 1..10 : Digits[d] = c) - 1
IsDigit(c) == \E d \in 1..10 : Digits[d] = c

RECURSIVE DecimalValue(_, _)
DecimalValue(s, acc) ==
    IF s = <<>> THEN acc ELSE DecimalValue(Tail(s), acc * 10 + DigitVal(Head(s)))

RECURSIVE StripZeros(_)
\* a numeral without its leading zeros
StripZeros(s) ==
    IF s # <<>> /\ Head(s) = "0" THEN StripZeros(Tail(s)) ELSE s

\* u64::MAX, 18446744073709551615, as a numeral
U64MaxNumeral ==
    <<"1", "8", "4", "4", "6", "7", "4", "4", "0", "7", "3", "7", "0", "9", "5", "5", "1", "6",
      "1", "5">>

\* the numeral s (no leading zero) denotes a value above u64::MAX
Overflows(s) ==
    \/ Len(s) > Len(U64MaxNumeral)
    \/ /\ Len(s) = Len(U64MaxNumeral)
       /\ \E i \in 1..Len(s) :
              /\ DigitVal(s[i]) > DigitVal(U64MaxNumeral[i])
              /\ \A j \in 1..(i - 1) : s[j] = U64MaxNumeral[j]

\* str::parse::<u64>: an optional "+", then one or more decimal digits whose
\* value fits 64 bits (PosOverflow otherwise)
ParseU64(s) ==
    LET body == IF s # <<>> /\ Head(s) = "+" THEN Tail(s) ELSE s IN
    IF body # <<>> /\ (\A i \in 1..Len(body) : IsDigit(body[i])) /\ ~Overflows(StripZeros(body))
    THEN Some(DecimalValue(body, 0))
    ELSE None

DefaultRetrySecs == 60
NoContent == 204

\* HeaderValue::to_str: fails for a value with a byte outside visible ASCII
NonAscii == {"~~"}
ToStrOk(v) == \A i \in 1..Len(v) : v[i] \notin NonAscii

Headers(async, location, retry) ==
    [azure_asyncoperation |-> async, location |-> location, retry_after |-> retry]

\* the outcome of locating an operation: a handle, an AppError returned by ?,
\* or a panic of unwrap / expect
Located(id, secs) == [kind |-> "Ok", err |-> "", operation_id |-> id, retry_secs |-> secs]
LocateErr(e) == [kind |-> "Err", err |-> e, operation_id |-> <<>>, retry_secs |-> 0]
LocatePanic(e) == [kind |-> "Panic", err |-> e, operation_id |-> <<>>, retry_secs |-> 0]

\* AppError::UrlParseError(e): the error with the url::ParseError it carries
UrlParseError(e) ==
    IF e = "EmptyHost" THEN "UrlParseError(EmptyHost)"
    ELSE "UrlParseError(RelativeUrlWithoutBase)"

\* a locator that reads location first and azure-asyncoperation only without it
RefreshLocate_LocationFirst(h) ==
    LET header == IF h.location # None THEN h.location ELSE h.azure_asyncoperation IN
    IF header = None THEN LocateErr("MissingLocationHeader")
    ELSE LET location == UrlParse(Unwrap(header)) IN
         IF ~location.ok THEN LocateErr(UrlParseError(location.err))
         ELSE IF PathSegments(location) = None THEN LocatePanic("Invalid location header")
         ELSE LET text == IF h.retry_after = None THEN <<"6", "0">> ELSE Unwrap(h.retry_after)
                  value == ParseU64(text)
              IN Located(Last(Unwrap(PathSegments(location))),
                         IF value = None THEN DefaultRetrySecs ELSE Unwrap(value))

\* a locator that polls with an empty id when no header names the operation
RefreshLocate_Lenient(h) ==
    LET header == IF h.azure_asyncoperation # None THEN h.azure_asyncoperation ELSE h.location IN
    IF header = None THEN Located(<<>>, DefaultRetrySecs)
    ELSE LET location == UrlParse(Unwrap(header)) IN
         IF ~location.ok THEN LocateErr(UrlParseError(location.err))
         ELSE IF PathSegments(location) = None THEN LocatePanic("Invalid location header")
         ELSE LET text == IF h.retry_after = None THEN <<"6", "0">> ELSE Unwrap(h.retry_after)
                  value == ParseU64(text)
              IN Located(Last(Unwrap(PathSegments(location))),
                         IF value = None THEN DefaultRetrySecs ELSE Unwrap(value))

\* main.rs:536-552: the handle of the vault refresh
RefreshLocate(h) ==
    LET header == IF h.azure_asyncoperation # None THEN h.azure_asyncoperation ELSE h.location IN
    IF header = None THEN LocateErr("MissingLocationHeader")
    ELSE LET location == UrlParse(Unwrap(header)) IN
         IF ~location.ok THEN LocateErr(UrlParseError(location.err))
         ELSE IF PathSegments(location) = None THEN LocatePanic("Invalid location header")
         ELSE LET text == IF h.retry_after = None THEN <<"6", "0">> ELSE Unwrap(h.retry_after)
                  value == ParseU64(text)
              IN Located(Last(Unwrap(PathSegments(location))),
                         IF value = None THEN DefaultRetrySecs ELSE Unwrap(value))

\* a locator that polls with an empty handle when no header names one
ItemLocate_Lenient(h) ==
    LET header == IF h.azure_asyncoperation # None THEN h.azure_asyncoperation ELSE h.location IN
    IF header = None THEN Located(<<>>, DefaultRetrySecs)
    ELSE IF ~ToStrOk(Unwrap(header)) THEN LocatePanic("to_str")
    ELSE LET location == UrlParse(Unwrap(header)) IN
         IF ~location.ok THEN LocateErr(UrlParseError(location.err))
         ELSE IF PathSegments(location) = None THEN LocatePanic("Invalid location header")
         ELSE Located(Last(Unwrap(PathSegments(location))), DefaultRetrySecs)

\* a locator that always waits the default interval
ItemLocate_FixedInterval(h) ==
    LET header == IF h.azure_asyncoperation # None THEN h.azure_asyncoperation ELSE h.location IN
    IF header = None THEN LocateErr("MissingLocationHeader")
    ELSE IF ~ToStrOk(Unwrap(header)) THEN LocatePanic("to_str")
    ELSE LET location == UrlParse(Unwrap(header)) IN
         IF ~location.ok THEN LocateErr(UrlParseError(location.err))
         ELSE IF PathSegments(location) = None THEN LocatePanic("Invalid location header")
         ELSE Located(Last(Unwrap(PathSegments(location))), DefaultRetrySecs)

\* a locator that falls back to location when azure-asyncoperation is no URL
ItemLocate_Fallback(h) ==
    LET usable(o) == o # None /\ ToStrOk(Unwrap(o)) /\ UrlParse(Unwrap(o)).ok
        header == IF h.azure_asyncoperation # None /\ (usable(h.azure_asyncoperation)
                                                        \/ ~usable(h.location))
                  THEN h.azure_asyncoperation ELSE h.location
    IN
    IF header = None THEN LocateErr("MissingLocationHeader")
    ELSE IF ~ToStrOk(Unwrap(header)) THEN LocatePanic("to_str")
    ELSE LET location == UrlParse(Unwrap(header)) IN
         IF ~location.ok THEN LocateErr(UrlParseError(location.err))
         ELSE IF PathSegments(location) = None THEN LocatePanic("Invalid location header")
         ELSE IF h.retry_after = None
              THEN Located(Last(Unwrap(PathSegments(location))), DefaultRetrySecs)
         ELSE IF ~ToStrOk(Unwrap(h.retry_after)) THEN LocatePanic("to_str")
         ELSE IF ParseU64(Unwrap(h.retry_after)) = None THEN LocatePanic("parse")
         ELSE Located(Last(Unwrap(PathSegments(location))),
                      Unwrap(ParseU64(Unwrap(h.retry_after))))

\* main.rs:654-668: the handle of one registration
ItemLocate(h) ==
    LET header == IF h.azure_asyncoperation # None THEN h.azure_asyncoperation ELSE h.location IN
    IF header = None THEN LocateErr("MissingLocationHeader")
    ELSE IF ~ToStrOk(Unwrap(header)) THEN LocatePanic("to_str")
    ELSE LET location == UrlParse(Unwrap(header)) IN
         IF ~location.ok THEN LocateErr(UrlParseError(location.err))
         ELSE IF PathSegments(location) = None THEN LocatePanic("Invalid location header")
         ELSE IF h.retry_after = None
              THEN Located(Last(Unwrap(PathSegments(location))), DefaultRetrySecs)
         ELSE IF ~ToStrOk(Unwrap(h.retry_after)) THEN LocatePanic("to_str")
         ELSE IF ParseU64(Unwrap(h.retry_after)) = None THEN LocatePanic("parse")
         ELSE Located(Last(Unwrap(PathSegments(location))),
                      Unwrap(ParseU64(Unwrap(h.retry_after))))

U_ops42 == <<"h", "t", "t", "p", "s", ":", "/", "/", "x", "/", "o", "p", "s", "/", "4", "2">>
U_abc123 == <<"h", "t", "t", "p", "s", ":", "/", "/", "x", "/", "r", "/", "a", "b", "c", "1", "2", "3",
              "?", "v", "=", "1">>
U_slash == <<"h", "t", "t", "p", "s", ":", "/", "/", "x", "/", "o", "p", "s", "/">>
U_host == <<"h", "t", "t", "p", "s", ":", "/", "/", "x">>
U_opaque == <<"m", "a", "i", "l", "t", "o", ":", "o", "p", "s">>
U_relative == <<"/", "o", "p", "s", "/", "4", "2">>
U_binary == U_ops42 \o <<"~~">>
U_nohost == <<"h", "t", "t", "p", "s", ":", "/", "/">>
U_relbinary == U_relative \o <<"~~">>

\* 2^64, the least numeral parse::<u64> rejects for overflow
R_overflow ==
    <<"1", "8", "4", "4", "6", "7", "4", "4", "0", "7", "3", "7", "0", "9", "5", "5", "1", "6",
      "1", "6">>

\* the values an azure-asyncoperation or location header may have, if present
UrlValues ==
    {None} \cup {Some(u) : u \in {U_ops42, U_abc123, U_slash, U_host, U_opaque, U_relative,
                                  U_binary, U_nohost, U_relbinary}}

\* the values a retry-after header may have, if present
RetryValues ==
    {None} \cup {Some(r) : r \in {<<"5">>, <<"0">>, <<"+", "7">>, <<"0", "0", "9">>,
                                  <<"s", "o", "o", "n">>, <<"-", "1">>, <<"1", ".", "5">>,
                                  <<>>, <<"~~">>, R_overflow}}

\* the header maps a response may carry
LocHeaders ==
    {Headers(async, location, retry) :
        async \in UrlValues, location \in UrlValues, retry \in RetryValues}

\* the response headers a submission may come back with
RespHeaders ==
    { Headers(None, None, None),
      Headers(None, None, Some(<<"5">>)),
      Headers(None, None, Some(<<"s", "o", "o", "n">>)),
      Headers(None, Some(U_ops42), None),
      Headers(Some(U_abc123), Some(U_ops42), Some(<<"5">>)),
      Headers(Some(U_relative), Some(U_ops42), None),
      Headers(None, Some(U_slash), Some(<<"0">>)),
      Headers(None, Some(U_host), Some(<<"+", "7">>)),
      Headers(Some(U_opaque), None, None),
      Headers(None, Some(U_binary), None),
      Headers(Some(U_ops42), None, Some(<<"s", "o", "o", "n">>)),
      Headers(Some(U_ops42), None, Some(<<"-", "1">>)) }

\* the virtual machines list_vms may return: name and id are optional
Vm(name, id) == [name |-> name, id |-> id]

VmPool ==
    { Vm(Some("vm-a"), Some("id-a")),
      Vm(Some("vm-b"), Some("id-b")),
      Vm(None, Some("id-x")),
      Vm(Some("vm-c"), None) }

VmLists == SeqsUpTo(VmPool, MaxListed)

\* the values of the --names argument of `recovery backup`
Filters == {None, Some(<<"vm-a">>), Some(<<"vm-b", "vm-a">>), Some(<<"vm-c">>)}

RECURSIVE SelectValues_IgnoresFilter(_, _)
\* a selection that takes every listed machine with a name and an id
SelectValues_IgnoresFilter(vms, filter) ==
    IF vms = <<>> THEN <<>>
    ELSE LET vm == Head(vms)
             rest == SelectValues_IgnoresFilter(Tail(vms), filter)
         IN IF vm.name # None /\ vm.id # None
            THEN <<[name |-> Unwrap(vm.name), id |-> Unwrap(vm.id)]>> \o rest
            ELSE rest

RECURSIVE SelectValues(_, _)
\* main.rs:580-595: the filter_map over the listed machines
SelectValues(vms, filter) ==
    IF vms = <<>> THEN <<>>
    ELSE LET vm == Head(vms)
             rest == SelectValues(Tail(vms), filter)
         IN IF filter # <<>> /\ ~(\E i \in 1..Len(filter) : Some(filter[i]) = vm.name)
            THEN rest
            ELSE IF vm.name # None /\ vm.id # None
                 THEN <<[name |-> Unwrap(vm.name), id |-> Unwrap(vm.id)]>> \o rest
                 ELSE rest

\* operation_status::Status, with the text of an unrecognized value
St(tag) == [tag |-> tag, value |-> ""]
UnknownValue(text) == [tag |-> "UnknownValue", value |-> text]

OpStatus ==
    { St("Invalid"), St("InProgress"), St("Succeeded"), St("Failed"), St("Canceled"),
      UnknownValue("Paused") }

\* what a status query may answer: OperationStatus.status is optional
StatusAnswers == {None} \cup {Some(st) : st \in OpStatus}

\* the status codes a refresh-result query may answer with
StatusCodes == {200, 202, NoContent}

Line(text, arg) == [text |-> text, arg |-> arg]

Arm(flow, inc, line) == [flow |-> flow, inc |-> inc, print |-> line]

\* a match whose Failed arm also increments count
MatchStatus_FailedCounts(st) ==
    IF st = None THEN Arm("continue", 0, None)
    ELSE LET tag == Unwrap(st).tag IN
         CASE tag = "Succeeded" -> Arm("break", 1, None)
           [] tag = "Failed" -> Arm("break", 1, Some(Line("Failed", "")))
           [] tag = "InProgress" -> Arm("continue", 0, None)
           [] tag = "Invalid" -> Arm("break", 0, Some(Line("Invalid", "")))
           [] tag = "Canceled" -> Arm("break", 0, Some(Line("Cancelled", "")))
           [] OTHER -> Arm("break", 0, Some(Line("Unknown value: ", Unwrap(st).value)))

\* a match whose InProgress arm breaks instead of continuing
MatchStatus_InProgressBreaks(st) ==
    IF st = None THEN Arm("continue", 0, None)
    ELSE LET tag == Unwrap(st).tag IN
         CASE tag = "Succeeded" -> Arm("break", 1, None)
           [] tag = "Failed" -> Arm("break", 0, Some(Line("Failed", "")))
           [] tag = "InProgress" -> Arm("break", 0, None)
           [] tag = "Invalid" -> Arm("break", 0, Some(Line("Invalid", "")))
           [] tag = "Canceled" -> Arm("break", 0, Some(Line("Cancelled", "")))
           [] OTHER -> Arm("break", 0, Some(Line("Unknown value: ", Unwrap(st).value)))

\* a match that polls again on an unrecognized status
MatchStatus_UnknownRetries(st) ==
    IF st = None THEN Arm("continue", 0, None)
    ELSE LET tag == Unwrap(st).tag IN
         CASE tag = "Succeeded" -> Arm("break", 1, None)
           [] tag = "Failed" -> Arm("break", 0, Some(Line("Failed", "")))
           [] tag = "InProgress" -> Arm("continue", 0, None)
           [] tag = "Invalid" -> Arm("break", 0, Some(Line("Invalid", "")))
           [] tag = "Canceled" -> Arm("break", 0, Some(Line("Cancelled", "")))
           [] OTHER -> Arm("continue", 0, None)

\* main.rs:684-723: the match on status.status: break or continue, the
\* increment of count, and the line printed
MatchStatus(st) ==
    IF st = None THEN Arm("continue", 0, None)
    ELSE LET tag == Unwrap(st).tag IN
         CASE tag = "Succeeded" -> Arm("break", 1, None)
           [] tag = "Failed" -> Arm("break", 0, Some(Line("Failed", "")))
           [] tag = "InProgress" -> Arm("continue", 0, None)
           [] tag = "Invalid" -> Arm("break", 0, Some(Line("Invalid", "")))
           [] tag = "Canceled" -> Arm("break", 0, Some(Line("Cancelled", "")))
           [] OTHER -> Arm("break", 0, Some(Line("Unknown value: ", Unwrap(st).value)))

\* a refresh wait that ends on any 2xx status code
RefreshDone_AnySuccess(c) == c \in 200..299

\* a refresh wait that no status code ends
RefreshDone_Never(c) == FALSE

\* main.rs:567: the refresh wait ends on 204 No Content
RefreshDone(code) == code = NoContent

\* main.rs:601, 699: the numbers of format!("Protected {count}/{total} virtual machines")
Protected(n, m) == Some([count |-> n, total |-> m])

\* one event of the operation being driven: its submission (item 0 is the
\* vault refresh), a sleep of secs seconds, a query of operation id; ok tells
\* whether the remote call returned Ok
Event(ev, item, secs, id, ok) ==
    [ev |-> ev, item |-> item, secs |-> secs, id |-> id, ok |-> ok]

Queries(log) == Cardinality({i \in 1..Len(log) : log[i].ev = "query"})

\* ------------------------------------------------------------------------
\* State
\* ------------------------------------------------------------------------
VARIABLES
    pc,          \* the await the running command is suspended at
    names_arg,   \* send_vm_command argument vm_names: Option<Vec<String>>
    command,     \* send_vm_command argument command: VmCommand
    vm_names,    \* send_vm_command local vm_names (the remaining resources)
    total,       \* send_vm_command local total
    completed,   \* send_vm_command local completed
    cmd_pos,     \* position of the iterator of start_vms / stop_vms
    view_pos,    \* position of the iterator of is_complete
    complete,    \* is_complete local complete (the names done in this round)
    rounds,      \* number of is_complete calls that have returned
    sleeps,      \* number of 2-second sleeps taken by send_vm_command
    commanded,   \* names whose start / deallocate request was sent successfully
    failed,      \* the remote call whose error ended the command, if any
    initial,     \* vm_names as resolved at main.rs:335-338
    asked,       \* the instance views requested so far, with their outcome
    view,        \* is_complete local view (the instance view last returned)
    names,       \* RecoveryCmd::Backup argument names: Option<Vec<String>>
    listed,      \* process_recovery_cmd local vms, when the selection is run on its own
    spinner,     \* count and total of the spinner text last set ("Protected n/m ...")
    headers,     \* process_recovery_cmd local headers (of the last submission)
    operation_id,\* process_recovery_cmd local operation_id
    retry_secs,  \* process_recovery_cmd local retry_secs, in seconds
    code,        \* status code of the last refresh-result response
    values,      \* process_recovery_cmd local values (the selected machines)
    item_total,  \* process_recovery_cmd local total
    count,       \* process_recovery_cmd local count
    idx,         \* position of the registration loop in values
    status,      \* status.status of the last status query
    printed,     \* the lines written by println!
    terminal,    \* the status that ended the poll of each finished item
    oplog,       \* the submission, sleeps and queries of the current operation
    err,         \* the error that ended process_recovery_cmd, if any
    outstanding  \* the remote calls started and not yet returned

vmVars == <<names_arg, command, vm_names, total, completed, cmd_pos, view_pos,
            complete, rounds, sleeps, commanded, failed, initial, asked, view>>

recVars == <<names, listed, spinner, headers, operation_id, retry_secs, code, values, item_total,
             count, idx, status, printed, terminal, oplog, err>>

vars == <<pc, outstanding, vmVars, recVars>>

NoFailure == [op |-> "none", name |-> None]

\* one get_instance_view of is_complete: the name asked about, whether the
\* call returned, and whether the status it returned contains the target
Asked(name, done, ok) == [name |-> name, done |-> done, ok |-> ok]

\* a remote call: the operation requested and the position of the resource
\* or item it is about (0 when it is about none)
Call(op, target) == [op |-> op, target |-> target]

\* an is_complete that requests every instance view at once and awaits them
\* together
Awaited_JoinAll ==
    CASE pc = "vm_start" /\ names_arg = None -> <<Call("list_vm_names", 0)>>
      [] pc = "vm_command" ->
             <<Call(IF command = "Start" THEN "start" ELSE "deallocate", cmd_pos)>>
      [] pc = "vm_query" ->
             [i \in 1..(Len(vm_names) - view_pos + 1) |->
                 Call("get_instance_view", view_pos + i - 1)]
      [] pc = "vm_list" -> <<Call("list_vms_with_instance_view", 0)>>
      [] pc = "rec_refresh" -> <<Call("refresh", 0)>>
      [] pc = "rec_refresh_poll" -> <<Call("refresh_operation_results", 0)>>
      [] pc = "rec_list" -> <<Call("list_vms", 0)>>
      [] pc = "rec_token" -> <<Call("get_token", 0)>>
      [] pc = "rec_submit" -> <<Call("put_protected_item", idx)>>
      [] pc = "rec_poll" -> <<Call("operation_statuses", idx)>>
      [] OTHER -> <<>>

\* the remote calls whose futures the command is awaiting where it is
\* suspended: every .await of send_vm_command, start_vms, stop_vms,
\* is_complete and process_recovery_cmd awaits the one call made on its line
\* (the sleeps are no remote calls)
Awaited ==
    CASE pc = "vm_start" /\ names_arg = None -> <<Call("list_vm_names", 0)>>
      [] pc = "vm_command" ->
             <<Call(IF command = "Start" THEN "start" ELSE "deallocate", cmd_pos)>>
      [] pc = "vm_query" -> <<Call("get_instance_view", view_pos)>>
      [] pc = "vm_list" -> <<Call("list_vms_with_instance_view", 0)>>
      [] pc = "rec_refresh" -> <<Call("refresh", 0)>>
      [] pc = "rec_refresh_poll" -> <<Call("refresh_operation_results", 0)>>
      [] pc = "rec_list" -> <<Call("list_vms", 0)>>
      [] pc = "rec_token" -> <<Call("get_token", 0)>>
      [] pc = "rec_submit" -> <<Call("put_protected_item", idx)>>
      [] pc = "rec_poll" -> <<Call("operation_statuses", idx)>>
      [] OTHER -> <<>>

RECURSIVE Returned(_, _)
\* the calls still outstanding once the calls of done have returned
Returned(calls, done) ==
    IF done = <<>> THEN calls
    ELSE LET hits == {p \in 1..Len(calls) : calls[p] = Head(done)}
             pos == CHOOSE p \in hits : \A q \in hits : p <= q
         IN Returned(IF hits = {} THEN calls
                     ELSE SubSeq(calls, 1, pos - 1) \o SubSeq(calls, pos + 1, Len(calls)),
                     Tail(done))

\* a step of the command: the calls it was awaiting have returned, and the
\* calls awaited at the await it runs to have been started
Resume == Returned(outstanding, Awaited) \o Awaited'

NoHeaders == Headers(None, None, None)

\* the locals of process_recovery_cmd before the command runs
RecIdle ==
    /\ names = None
    /\ listed = <<>>
    /\ spinner = None
    /\ headers = NoHeaders
    /\ operation_id = <<>>
    /\ retry_secs = 0
    /\ code = 0
    /\ values = <<>>
    /\ item_total = 0
    /\ count = 0
    /\ idx = 0
    /\ status = None
    /\ printed = <<>>
    /\ terminal = <<>>
    /\ oplog = <<>>
    /\ err = ""

\* the locals of send_vm_command before the command runs
VmIdle ==
    /\ names_arg = None
    /\ command = "Start"
    /\ vm_names = <<>>
    /\ total = 0
    /\ completed = 0
    /\ cmd_pos = 1
    /\ view_pos = 1
    /\ complete = <<>>
    /\ rounds = 0
    /\ sleeps = 0
    /\ commanded = <<>>
    /\ failed = NoFailure
    /\ initial = <<>>
    /\ asked = <<>>
    /\ view = <<>>

\* ------------------------------------------------------------------------
\* send_vm_command (main.rs:334-388)
\* ------------------------------------------------------------------------
InitVm ==
    /\ pc = "vm_start"
    /\ names_arg \in {None} \cup {Some(l) : l \in NameLists \ {<<>>}}
    /\ command \in VmCommands
    /\ vm_names = <<>>
    /\ total = 0
    /\ completed = 0
    /\ cmd_pos = 1
    /\ view_pos = 1
    /\ complete = <<>>
    /\ rounds = 0
    /\ sleeps = 0
    /\ commanded = <<>>
    /\ failed = NoFailure
    /\ initial = <<>>
    /\ asked = <<>>
    /\ view = <<>>
    /\ RecIdle
    /\ outstanding = Awaited

\* a bookkeeping that sets completed to the number done in this round
FinishRound_Recount(remaining, done, comp) ==
    LET rest == RemoveDone(remaining, done) IN
    /\ completed' = Len(done)
    /\ vm_names' = rest
    /\ complete' = done
    /\ rounds' = rounds + 1
    /\ pc' = IF rest = <<>> THEN "vm_list" ELSE "vm_sleep"

\* a loop that sleeps before it looks whether remaining is empty
FinishRound_AlwaysSleep(remaining, done, comp) ==
    LET rest == RemoveDone(remaining, done) IN
    /\ completed' = comp + Len(done)
    /\ vm_names' = rest
    /\ complete' = done
    /\ rounds' = rounds + 1
    /\ pc' = "vm_sleep"

\* a loop that gives up after its second round
FinishRound_GivesUp(remaining, done, comp) ==
    LET rest == RemoveDone(remaining, done) IN
    /\ completed' = comp + Len(done)
    /\ vm_names' = rest
    /\ complete' = done
    /\ rounds' = rounds + 1
    /\ pc' = IF rest = <<>> \/ rounds >= 1 THEN "vm_list" ELSE "vm_sleep"

\* main.rs:362-377: the bookkeeping after is_complete returned done
FinishRound(remaining, done, comp) ==
    LET rest == RemoveDone(remaining, done) IN
    /\ completed' = comp + Len(done)
    /\ vm_names' = rest
    /\ complete' = done
    /\ rounds' = rounds + 1
    /\ pc' = IF rest = <<>> THEN "vm_list" ELSE "vm_sleep"

\* main.rs:342-360: command() returned Ok, the convergence loop is entered
StartPolling(list) ==
    /\ total' = Len(list)
    /\ IF list = <<>>
       THEN FinishRound(list, <<>>, 0) /\ view_pos' = 1
       ELSE /\ completed' = 0
            /\ vm_names' = list
            /\ complete' = <<>>
            /\ view_pos' = 1
            /\ rounds' = rounds
            /\ pc' = "vm_query"

\* main.rs:335-340: resolve the name list, by a listing when none was given
VmStart ==
    /\ pc = "vm_start"
    /\ \E ok \in (IF names_arg = None THEN BOOLEAN ELSE {TRUE}),
          r \in (IF names_arg = None THEN NameLists ELSE {Unwrap(names_arg)}) :
         IF ~ok
         THEN /\ pc' = "vm_error"
              /\ failed' = [op |-> "list_vm_names", name |-> None]
              /\ UNCHANGED <<names_arg, command, vm_names, total, completed, cmd_pos,
                             view_pos, complete, rounds, sleeps, commanded, initial, asked, view>>
         ELSE /\ initial' = r
              /\ IF r = <<>>
                 THEN StartPolling(r) /\ cmd_pos' = 1
                 ELSE /\ pc' = "vm_command"
                      /\ vm_names' = r
                      /\ cmd_pos' = 1
                      /\ UNCHANGED <<total, completed, view_pos, complete, rounds>>
              /\ UNCHANGED <<names_arg, command, sleeps, commanded, failed, asked, view>>
    /\ UNCHANGED recVars
    /\ outstanding' = Resume

\* a command loop that notes a failed request and goes on with the next VM
CommandVm_SkipsFailed ==
    /\ pc = "vm_command"
    /\ cmd_pos <= Len(vm_names)
    /\ \E ok \in BOOLEAN :
         /\ failed' = IF ok THEN failed
                       ELSE [op |-> "command", name |-> Some(vm_names[cmd_pos])]
         /\ commanded' = IF ok THEN Append(commanded, vm_names[cmd_pos]) ELSE commanded
         /\ cmd_pos' = cmd_pos + 1
         /\ IF cmd_pos = Len(vm_names)
            THEN StartPolling(vm_names)
            ELSE UNCHANGED <<pc, vm_names, total, completed, view_pos, complete, rounds>>
         /\ UNCHANGED <<names_arg, command, sleeps, initial, asked, view>>
    /\ UNCHANGED recVars
    /\ outstanding' = Resume

\* vm_client.rs:144-170: one start / deallocate request of start_vms / stop_vms
CommandVm ==
    /\ pc = "vm_command"
    /\ cmd_pos <= Len(vm_names)
    /\ \E ok \in BOOLEAN :
         IF ~ok
         THEN /\ pc' = "vm_error"
              /\ failed' = [op |-> "command", name |-> Some(vm_names[cmd_pos])]
              /\ UNCHANGED <<names_arg, command, vm_names, total, completed, cmd_pos,
                             view_pos, complete, rounds, sleeps, commanded, initial, asked, view>>
         ELSE /\ commanded' = Append(commanded, vm_names[cmd_pos])
              /\ cmd_pos' = cmd_pos + 1
              /\ IF cmd_pos = Len(vm_names)
                 THEN StartPolling(vm_names)
                 ELSE UNCHANGED <<pc, vm_names, total, completed, view_pos, complete, rounds>>
              /\ UNCHANGED <<names_arg, command, sleeps, failed, initial, asked, view>>
    /\ UNCHANGED recVars
    /\ outstanding' = Resume

\* vm_client.rs:43-55: one get_instance_view of is_complete; after the last
\* one is_complete returns and the round's bookkeeping is done
QueryVm ==
    /\ pc = "vm_query"
    /\ view_pos <= Len(vm_names)
    /\ \E ok \in BOOLEAN, r \in Views :
         IF ~ok
         THEN /\ pc' = "vm_error"
              /\ failed' = [op |-> "query", name |-> Some(vm_names[view_pos])]
              /\ asked' = Append(asked, Asked(vm_names[view_pos], FALSE, FALSE))
              /\ UNCHANGED <<names_arg, command, vm_names, total, completed, cmd_pos,
                             view_pos, complete, rounds, sleeps, commanded, initial, view>>
         ELSE LET done == IF IsDone(r, target_state(command))
                          THEN Append(complete, vm_names[view_pos])
                          ELSE complete
              IN /\ IF view_pos = Len(vm_names)
                    THEN FinishRound(vm_names, done, completed) /\ view_pos' = view_pos + 1
                    ELSE /\ complete' = done
                         /\ view_pos' = view_pos + 1
                         /\ UNCHANGED <<pc, vm_names, completed, rounds>>
                 /\ asked' = Append(asked, Asked(vm_names[view_pos],
                                                IsDone(r, target_state(command)), TRUE))
                 /\ view' = r
                 /\ UNCHANGED <<names_arg, command, total, cmd_pos, sleeps, commanded,
                                failed, initial>>
    /\ UNCHANGED recVars
    /\ outstanding' = Resume

\* a next round whose is_complete goes on with the list of the round before
SleepVm_KeepsComplete ==
    /\ pc = "vm_sleep"
    /\ rounds < MaxRounds
    /\ pc' = "vm_query"
    /\ sleeps' = sleeps + 1
    /\ view_pos' = 1
    /\ complete' = complete
    /\ UNCHANGED <<names_arg, command, vm_names, total, completed, cmd_pos, rounds,
                   commanded, failed, initial, asked, view>>
    /\ UNCHANGED recVars
    /\ outstanding' = Resume

\* main.rs:376 and 358: the 2-second sleep, then the next round begins
SleepVm ==
    /\ pc = "vm_sleep"
    /\ rounds < MaxRounds
    /\ pc' = "vm_query"
    /\ sleeps' = sleeps + 1
    /\ view_pos' = 1
    /\ complete' = <<>>
    /\ UNCHANGED <<names_arg, command, vm_names, total, completed, cmd_pos, rounds,
                   commanded, failed, initial, asked, view>>
    /\ UNCHANGED recVars
    /\ outstanding' = Resume

\* main.rs:380-387: the final listing for display
ListFinalVm ==
    /\ pc = "vm_list"
    /\ \E ok \in BOOLEAN :
         /\ pc' = IF ok THEN "vm_done" ELSE "vm_error"
         /\ failed' = IF ok THEN failed ELSE [op |-> "list_vms_with_instance_view", name |-> None]
    /\ UNCHANGED <<names_arg, command, vm_names, total, completed, cmd_pos, view_pos,
                   complete, rounds, sleeps, commanded, initial, asked, view>>
    /\ UNCHANGED recVars
    /\ outstanding' = Resume

NextVm == VmStart \/ CommandVm \/ QueryVm \/ SleepVm \/ ListFinalVm

SpecVm == InitVm /\ [][NextVm]_vars

\* ------------------------------------------------------------------------
\* process_recovery_cmd, RecoveryCmd::Backup (main.rs:500-752)
\* ------------------------------------------------------------------------
InitRec ==
    /\ pc = "rec_refresh"
    /\ VmIdle
    /\ names \in Filters
    /\ listed = <<>>
    /\ spinner = None
    /\ headers = NoHeaders
    /\ operation_id = <<>>
    /\ retry_secs = 0
    /\ code = 0
    /\ values = <<>>
    /\ item_total = 0
    /\ count = 0
    /\ idx = 0
    /\ status = None
    /\ printed = <<>>
    /\ terminal = <<>>
    /\ oplog = <<>>
    /\ err = ""
    /\ outstanding = Awaited

\* an error of a status query that is swallowed: the loop sleeps and retries
Propagate_Retry(e) ==
    /\ pc' = (IF pc = "rec_poll" THEN "rec_sleep"
              ELSE IF pc = "rec_refresh_poll" THEN "rec_refresh_sleep" ELSE "rec_error")
    /\ err' = (IF pc \in {"rec_poll", "rec_refresh_poll"} THEN err ELSE e)

\* an error of a status query after which the item is submitted again
Propagate_Resubmits(e) ==
    /\ pc' = (IF pc = "rec_poll" THEN "rec_submit" ELSE "rec_error")
    /\ err' = e

\* a remote call returned an error, which ? propagates out of the command
Propagate(e) ==
    /\ pc' = "rec_error"
    /\ err' = e

\* main.rs:532-554 and 652-670: the handle located from the response headers
\* h of a submission; on success the poll loop is entered at its sleep
EnterPoll(located, h, item, sleep_pc) ==
    /\ headers' = h
    /\ oplog' = <<Event("submit", item, 0, <<>>, TRUE)>>
    /\ IF located.kind = "Ok"
       THEN /\ operation_id' = located.operation_id
            /\ retry_secs' = located.retry_secs
            /\ pc' = sleep_pc
            /\ UNCHANGED err
       ELSE /\ pc' = IF located.kind = "Err" THEN "rec_error" ELSE "rec_panic"
            /\ err' = located.err
            /\ UNCHANGED <<operation_id, retry_secs>>

\* a refresh that is submitted and not waited for: the listing comes next
RefreshSubmit_NoWait ==
    /\ pc = "rec_refresh"
    /\ \E ok \in BOOLEAN, h \in RespHeaders :
         IF ~ok
         THEN /\ Propagate("Transport")
              /\ oplog' = <<Event("submit", 0, 0, <<>>, FALSE)>>
              /\ UNCHANGED <<headers, operation_id, retry_secs>>
         ELSE EnterPoll(RefreshLocate(h), h, 0, "rec_list")
    /\ UNCHANGED <<names, listed, spinner, code, values, item_total, count, idx, status, printed, terminal>>
    /\ UNCHANGED vmVars
    /\ outstanding' = Resume

\* main.rs:525-554: the refresh submission and its handle
RefreshSubmit ==
    /\ pc = "rec_refresh"
    /\ \E ok \in BOOLEAN, h \in RespHeaders :
         IF ~ok
         THEN /\ Propagate("Transport")
              /\ oplog' = <<Event("submit", 0, 0, <<>>, FALSE)>>
              /\ UNCHANGED <<headers, operation_id, retry_secs>>
         ELSE EnterPoll(RefreshLocate(h), h, 0, "rec_refresh_sleep")
    /\ UNCHANGED <<names, listed, spinner, code, values, item_total, count, idx, status, printed, terminal>>
    /\ UNCHANGED vmVars
    /\ outstanding' = Resume

\* main.rs:557: the sleep before a refresh-result query
RefreshSleep ==
    /\ pc = "rec_refresh_sleep"
    /\ pc' = "rec_refresh_poll"
    /\ oplog' = Append(oplog, Event("sleep", 0, retry_secs, <<>>, TRUE))
    /\ UNCHANGED <<names, listed, spinner, headers, operation_id, retry_secs, code, values, item_total,
                   count, idx, status, printed, terminal, err>>
    /\ UNCHANGED vmVars
    /\ outstanding' = Resume

\* main.rs:559-570: one refresh-result query
RefreshPoll ==
    /\ pc = "rec_refresh_poll"
    /\ \E ok \in BOOLEAN, c \in StatusCodes :
         /\ oplog' = Append(oplog, Event("query", 0, 0, operation_id, ok))
         /\ IF ~ok
            THEN Propagate("Transport") /\ UNCHANGED code
            ELSE /\ code' = c
                 /\ RefreshDone(c) \/ Queries(oplog) < MaxPolls
                 /\ pc' = IF RefreshDone(c) THEN "rec_list" ELSE "rec_refresh_sleep"
                 /\ UNCHANGED err
    /\ UNCHANGED <<names, listed, spinner, headers, operation_id, retry_secs, values, item_total,
                   count, idx, status, printed, terminal>>
    /\ UNCHANGED vmVars
    /\ outstanding' = Resume

\* main.rs:572-601: the listing and the selection of the machines to register
ListVms ==
    /\ pc = "rec_list"
    /\ \E ok \in BOOLEAN, vms \in VmLists :
         IF ~ok
         THEN Propagate("Transport") /\ UNCHANGED <<values, item_total, count, spinner>>
         ELSE /\ values' = SelectValues(vms, IF names = None THEN <<>> ELSE Unwrap(names))
              /\ item_total' = Len(values')
              /\ count' = 0
              /\ spinner' = Protected(0, Len(values'))
              /\ pc' = "rec_token"
              /\ UNCHANGED err
    /\ UNCHANGED <<names, listed, headers, operation_id, retry_secs, code, idx, status, printed,
                   terminal, oplog>>
    /\ UNCHANGED vmVars
    /\ outstanding' = Resume

\* main.rs:606-621: the token, the HTTP client, and the entry of the for loop
GetToken ==
    /\ pc = "rec_token"
    /\ \E ok \in BOOLEAN :
         IF ~ok
         THEN Propagate("Transport") /\ UNCHANGED idx
         ELSE /\ pc' = IF values = <<>> THEN "rec_done" ELSE "rec_submit"
              /\ idx' = IF values = <<>> THEN idx ELSE 1
              /\ UNCHANGED err
    /\ UNCHANGED <<names, listed, spinner, headers, operation_id, retry_secs, code, values, item_total,
                   count, status, printed, terminal, oplog>>
    /\ UNCHANGED vmVars
    /\ outstanding' = Resume

\* main.rs:646-670: the PUT of item idx and its handle
Submit ==
    /\ pc = "rec_submit"
    /\ \E ok \in BOOLEAN, h \in RespHeaders :
         IF ~ok
         THEN /\ Propagate("Transport")
              /\ oplog' = <<Event("submit", idx, 0, <<>>, FALSE)>>
              /\ UNCHANGED <<headers, operation_id, retry_secs>>
         ELSE EnterPoll(ItemLocate(h), h, idx, "rec_sleep")
    /\ UNCHANGED <<names, listed, spinner, code, values, item_total, count, idx, status, printed, terminal>>
    /\ UNCHANGED vmVars
    /\ outstanding' = Resume

\* a sleep that backs off: the interval grows with every query made
ItemSleep_Backoff ==
    /\ pc = "rec_sleep"
    /\ pc' = "rec_poll"
    /\ oplog' = Append(oplog, Event("sleep", idx, retry_secs * (Queries(oplog) + 1), <<>>, TRUE))
    /\ UNCHANGED <<names, listed, spinner, headers, operation_id, retry_secs, code, values, item_total,
                   count, idx, status, printed, terminal, err>>
    /\ UNCHANGED vmVars
    /\ outstanding' = Resume

\* a sleep that doubles the interval kept in the handle
ItemSleep_Doubles ==
    /\ pc = "rec_sleep"
    /\ pc' = "rec_poll"
    /\ oplog' = Append(oplog, Event("sleep", idx, retry_secs, <<>>, TRUE))
    /\ retry_secs' = retry_secs * 2
    /\ UNCHANGED <<names, listed, spinner, headers, operation_id, code, values, item_total,
                   count, idx, status, printed, terminal, err>>
    /\ UNCHANGED vmVars
    /\ outstanding' = Resume

\* main.rs:672: the sleep before a status query
ItemSleep ==
    /\ pc = "rec_sleep"
    /\ pc' = "rec_poll"
    /\ oplog' = Append(oplog, Event("sleep", idx, retry_secs, <<>>, TRUE))
    /\ UNCHANGED <<names, listed, spinner, headers, operation_id, retry_secs, code, values, item_total,
                   count, idx, status, printed, terminal, err>>
    /\ UNCHANGED vmVars
    /\ outstanding' = Resume

\* a loop that goes through the same item again
NextItem_Repeats ==
    /\ pc' = "rec_submit"
    /\ idx' = idx

\* a loop that ends the batch after the current item
NextItem_Stop ==
    /\ pc' = "rec_done"
    /\ idx' = idx

\* main.rs:621, 726-728: the for loop moves to the next item or ends
NextItem ==
    /\ pc' = IF idx < Len(values) THEN "rec_submit" ELSE "rec_done"
    /\ idx' = IF idx < Len(values) THEN idx + 1 ELSE idx

\* main.rs:674-724: one status query of item idx and the match on its status
ItemPoll ==
    /\ pc = "rec_poll"
    /\ \E ok \in BOOLEAN, answer \in StatusAnswers :
         /\ oplog' = Append(oplog, Event("query", idx, 0, operation_id, ok))
         /\ IF ~ok
            THEN /\ Propagate("Transport")
                 /\ UNCHANGED <<status, count, spinner, printed, terminal, idx>>
            ELSE LET arm == MatchStatus(answer) IN
                 /\ status' = answer
                 /\ count' = count + arm.inc
                 /\ spinner' = IF arm.inc > 0 THEN Protected(count + arm.inc, item_total)
                               ELSE spinner
                 /\ printed' = IF arm.print = None THEN printed
                               ELSE Append(printed, Unwrap(arm.print))
                 /\ IF arm.flow = "continue"
                    THEN /\ Queries(oplog) < MaxPolls
                         /\ pc' = "rec_sleep"
                         /\ UNCHANGED <<terminal, idx>>
                    ELSE /\ terminal' = Append(terminal, answer)
                         /\ NextItem
                 /\ UNCHANGED err
    /\ UNCHANGED <<names, listed, headers, operation_id, retry_secs, code, values, item_total>>
    /\ UNCHANGED vmVars
    /\ outstanding' = Resume

NextRec ==
    \/ RefreshSubmit \/ RefreshSleep \/ RefreshPoll \/ ListVms \/ GetToken
    \/ Submit \/ ItemSleep \/ ItemPoll

SpecRec == InitRec /\ [][NextRec]_vars

\* ------------------------------------------------------------------------
\* The handle located from one response (main.rs:532-552 and 652-668)
\* ------------------------------------------------------------------------
InitLoc ==
    /\ pc = "loc_response"
    /\ VmIdle
    /\ names = None
    /\ listed = <<>>
    /\ spinner = None
    /\ headers \in LocHeaders
    /\ operation_id = <<>>
    /\ retry_secs = 0
    /\ code = 0
    /\ values = <<>>
    /\ item_total = 0
    /\ count = 0
    /\ idx = 0
    /\ status = None
    /\ printed = <<>>
    /\ terminal = <<>>
    /\ oplog = <<>>
    /\ err = ""
    /\ outstanding = <<>>

\* main.rs:532-554: the response is the one to the refresh submission
LocateRefresh ==
    /\ pc = "loc_response"
    /\ EnterPoll(RefreshLocate(headers), headers, 0, "rec_refresh_sleep")
    /\ UNCHANGED <<names, listed, spinner, code, values, item_total, count, idx, status, printed, terminal>>
    /\ UNCHANGED vmVars
    /\ outstanding' = Resume

\* main.rs:652-670: the response is the one to the PUT of the first item
LocateItem ==
    /\ pc = "loc_response"
    /\ EnterPoll(ItemLocate(headers), headers, 1, "rec_sleep")
    /\ idx' = 1
    /\ UNCHANGED <<names, listed, spinner, code, values, item_total, count, status, printed, terminal>>
    /\ UNCHANGED vmVars
    /\ outstanding' = Resume

NextLoc == LocateRefresh \/ LocateItem

SpecLoc == InitLoc /\ [][NextLoc]_vars

\* ------------------------------------------------------------------------
\* The selection made from one listing (main.rs:576-601)
\* ------------------------------------------------------------------------
InitSel ==
    /\ pc = "rec_select"
    /\ VmIdle
    /\ names \in Filters
    /\ listed \in VmLists
    /\ spinner = None
    /\ headers = NoHeaders
    /\ operation_id = <<>>
    /\ retry_secs = 0
    /\ code = NoContent
    /\ values = <<>>
    /\ item_total = 0
    /\ count = 0
    /\ idx = 0
    /\ status = None
    /\ printed = <<>>
    /\ terminal = <<>>
    /\ oplog = <<>>
    /\ err = ""
    /\ outstanding = <<>>

\* main.rs:576-601: vm_names, the filter_map over vms, total and count
SelectListed ==
    /\ pc = "rec_select"
    /\ values' = SelectValues(listed, IF names = None THEN <<>> ELSE Unwrap(names))
    /\ item_total' = Len(values')
    /\ count' = 0
    /\ spinner' = Protected(0, Len(values'))
    /\ pc' = "rec_token"
    /\ UNCHANGED <<names, listed, headers, operation_id, retry_secs, code, idx, status,
                   printed, terminal, oplog, err>>
    /\ UNCHANGED vmVars
    /\ outstanding' = Resume

NextSel == SelectListed

SpecSel == InitSel /\ [][NextSel]_vars

\* ------------------------------------------------------------------------
\* Either command: `vm start` / `vm stop` or `recovery backup`
\* ------------------------------------------------------------------------
InitBoth == InitVm \/ InitRec

NextBoth == NextVm \/ NextRec

SpecBoth == InitBoth /\ [][NextBoth]_vars

\* ------------------------------------------------------------------------
\* Claims about send_vm_command (checked under SpecVm)
\* ------------------------------------------------------------------------
Count(seq, x) == Cardinality({i \in 1..Len(seq) : seq[i] = x})

\* the convergence loop has been entered: total and completed are set
PollingEntered ==
    \/ pc \in {"vm_query", "vm_sleep", "vm_list", "vm_done"}
    \/ pc = "vm_error" /\ failed.op \in {"query", "list_vms_with_instance_view"}

\* C1: once the convergence loop is entered, and so after every round's
\* bookkeeping, completed + |remaining| = total, total is the length of the
\* initial name list, and no name has left remaining more often than the
\* initial list holds it.
C1_TrackerInvariant ==
    PollingEntered =>
        /\ total = Len(initial)
        /\ completed + Len(vm_names) = total
        /\ \A n \in Names : Count(vm_names, n) <= Count(initial, n)

\* a round has ended with one of two equal names done and the other remaining
C1_Witness ==
    /\ pc = "vm_sleep"
    /\ rounds = 2
    /\ initial = <<"vm-a", "vm-a">>
    /\ vm_names = <<"vm-a">>
    /\ completed = 1

\* C2: a failing command submission or status query of one resource does not
\* abort the batch: when the command has ended, every other resource of the
\* batch has been commanded and has converged (left remaining).
C2_FailureIsolated ==
    (pc = "vm_error" /\ failed.op \in {"command", "query"}) =>
        \A i \in 1..Len(initial) :
            initial[i] # Unwrap(failed.name) =>
                /\ Count(commanded, initial[i]) > 0
                /\ Count(vm_names, initial[i]) = 0

\* ------------------------------------------------------------------------
\* Claims about process_recovery_cmd (checked under SpecRec)
\* ------------------------------------------------------------------------
\* the statuses after which an operation is polled no more
TerminalTags == {"Succeeded", "Failed", "Canceled", "Invalid", "UnknownValue"}
FailureTags == {"Failed", "Canceled", "Invalid", "UnknownValue"}

IsTerminal(answer) == answer # None /\ Unwrap(answer).tag \in TerminalTags

\* the response to the submission of the current item has been received
ItemResponded == oplog # <<>> /\ oplog[1].ev = "submit" /\ oplog[1].item >= 1 /\ oplog[1].ok

C3_Step ==
    (/\ pc = "rec_poll"
     /\ pc' # "rec_error"
     /\ status' # None
     /\ Unwrap(status').tag \in FailureTags) =>
        /\ count' = count
        /\ err' = ""
        /\ terminal' = Append(terminal, status')
        /\ IF idx < Len(values)
           THEN pc' = "rec_submit" /\ idx' = idx + 1
           ELSE pc' = "rec_done"

\* C3: a status query of an item that answers Failed, Canceled, Invalid or
\* an unknown status ends that item's poll without aborting the batch: count
\* is unchanged, no error is raised, and the loop goes on to submit the next
\* item (or ends normally after the last one).
C3_FailedItemContinues == [][C3_Step]_vars

\* the second item is being polled after the first one ended Failed
C3_Witness ==
    /\ pc = "rec_poll"
    /\ idx = 2
    /\ Len(terminal) = 1
    /\ Unwrap(terminal[1]).tag = "Failed"
    /\ count = 0

\* C4: when the response to the submission of item k has neither an
\* azure-asyncoperation nor a location header, the command has ended with
\* MissingLocationHeader: nothing but the submission happened for item k, no
\* later item was touched, and no step of the command is possible any more.
C4_MissingHandleAborts ==
    (ItemResponded /\ headers.azure_asyncoperation = None /\ headers.location = None) =>
        /\ pc = "rec_error"
        /\ err = "MissingLocationHeader"
        /\ Len(oplog) = 1
        /\ idx = oplog[1].item
        /\ Len(terminal) = idx - 1
        /\ ~ENABLED NextRec

\* the first of two items came back without a handle
C4_Witness ==
    /\ ItemResponded
    /\ headers.azure_asyncoperation = None
    /\ headers.location = None
    /\ idx = 1
    /\ Len(values) = 2
    /\ pc = "rec_error"

SucceededCount(t) == Cardinality({i \in 1..Len(t) : Unwrap(t[i]).tag = "Succeeded"})

\* the line println! writes for a terminal status other than Succeeded
ExpectedLine(st) ==
    CASE st.tag = "Failed" -> Line("Failed", "")
      [] st.tag = "Invalid" -> Line("Invalid", "")
      [] st.tag = "Canceled" -> Line("Cancelled", "")
      [] OTHER -> Line("Unknown value: ", st.value)

RECURSIVE ExpectedLines(_)
ExpectedLines(t) ==
    IF t = <<>> THEN <<>>
    ELSE IF Unwrap(Head(t)).tag = "Succeeded" THEN ExpectedLines(Tail(t))
    ELSE <<ExpectedLine(Unwrap(Head(t)))>> \o ExpectedLines(Tail(t))

C6_Sequential ==
    (oplog # <<>> /\ oplog[1].item >= 1) =>
        LET k == oplog[1].item IN
        /\ oplog[1].ev = "submit"
        /\ \A i \in 2..Len(oplog) : oplog[i].item = k /\ oplog[i].ev # "submit"
        /\ Len(terminal) \in {k - 1, k}
        /\ \A j \in 1..Len(terminal) : IsTerminal(terminal[j])
        /\ pc \in {"rec_sleep", "rec_poll", "rec_error", "rec_panic"} =>
               (idx = k /\ Len(terminal) = k - 1)
        /\ pc = "rec_submit" => (idx = k + 1 /\ Len(terminal) = k)

\* the second item has been submitted and polled once
C6_Witness ==
    /\ pc = "rec_sleep"
    /\ idx = 2
    /\ Len(oplog) = 3
    /\ oplog[1].item = 2
    /\ Len(terminal) = 1

C7_Step ==
    /\ (pc = "rec_poll" /\ pc' \notin {"rec_sleep", "rec_error"}) =>
           /\ IsTerminal(status')
           /\ Last(oplog').ev = "query" /\ Last(oplog').ok
    /\ (pc = "rec_refresh_poll" /\ pc' \notin {"rec_refresh_sleep", "rec_error"}) =>
           /\ code' = 204
           /\ Last(oplog').ev = "query" /\ Last(oplog').ok
    /\ pc = "rec_sleep" => pc' = "rec_poll"
    /\ pc = "rec_refresh_sleep" => pc' = "rec_refresh_poll"

\* C7: neither poll loop is left normally before its terminal answer: the
\* item loop is left only by a query that answered a terminal status, the
\* refresh loop only by a query that answered 204, or by an error.
C7_NoEarlyReturn == [][C7_Step]_vars

\* the refresh wait ended after two polls, and an item ended after two polls
C7_Witness ==
    /\ pc = "rec_done"
    /\ code = 204
    /\ Len(oplog) = 5
    /\ IsTerminal(status)

C8_Step ==
    (pc = "rec_poll" /\ pc' # "rec_error") =>
        /\ (pc' = "rec_sleep" /\ idx' = idx /\ terminal' = terminal)
               <=> (status' = None \/ Unwrap(status').tag = "InProgress")
        /\ (pc' \in {"rec_submit", "rec_done"} /\ terminal' = Append(terminal, status'))
               <=> (status' # None /\ Unwrap(status').tag \in TerminalTags)

\* C8: a status query that returns polls again exactly when the status is
\* InProgress or absent, and ends the item's poll exactly when it is
\* Succeeded, Failed, Canceled, Invalid or an unrecognized value.
C8_StatusClassification == [][C8_Step]_vars

\* an unrecognized status ended the poll of the first of two items at once
C8_Witness ==
    /\ pc = "rec_submit"
    /\ idx = 2
    /\ Unwrap(status).tag = "UnknownValue"
    /\ Len(oplog) = 3

\* C9: a status query that returned an error is the last event of its
\* operation: the command has ended with that error, with no later sleep or
\* query, and no step of the command is possible any more.
C9_TransportErrorAborts ==
    \A i \in 1..Len(oplog) :
        (oplog[i].ev = "query" /\ ~oplog[i].ok) =>
            /\ i = Len(oplog)
            /\ pc = "rec_error"
            /\ err = "Transport"
            /\ ~ENABLED NextRec

\* the second status query of an item failed
C9_Witness ==
    /\ pc = "rec_error"
    /\ Len(oplog) = 5
    /\ oplog[1].item = 1
    /\ oplog[5].ev = "query"
    /\ ~oplog[5].ok

\* a poll loop has been left normally
LoopLeft == pc \in {"rec_list", "rec_token", "rec_submit", "rec_done"}

\* C10: after its submission an operation's events alternate sleep, query,
\* sleep, query: every query directly follows one sleep, every sleep lasts
\* the handle's interval, which stays what it was located as, and a loop that
\* has been left ends with its last query (no sleep follows it).
C10_Cadence ==
    (oplog # <<>> /\ oplog[1].ok) =>
        /\ \A i \in 2..Len(oplog) :
               IF i % 2 = 0
               THEN oplog[i].ev = "sleep" /\ oplog[i].secs = retry_secs
               ELSE oplog[i].ev = "query"
        /\ LoopLeft => (Len(oplog) >= 3 /\ Last(oplog).ev = "query")
        /\ pc \in {"rec_poll", "rec_refresh_poll"} => Last(oplog).ev = "sleep"
        /\ (Len(oplog) >= 2 /\ oplog[1].item >= 1) =>
               retry_secs = ItemLocate(headers).retry_secs
        /\ (Len(oplog) >= 2 /\ oplog[1].item = 0) =>
               retry_secs = RefreshLocate(headers).retry_secs

\* an item with a 5-second interval is about to be queried a third time
C10_Witness ==
    /\ pc = "rec_poll"
    /\ idx = 1
    /\ retry_secs = 5
    /\ Len(oplog) = 6
    /\ oplog[6].secs = 5

\* ------------------------------------------------------------------------
\* Claims about the remote calls of both commands (checked under SpecBoth)
\* ------------------------------------------------------------------------
\* C11: at most one remote call is outstanding at any time, in the
\* registration batch and in the start / stop convergence alike: whenever a
\* call is outstanding it is the only one, and it is the call of the await
\* the command is suspended at, so every call started before it has returned.
C11_OneCallOutstanding ==
    /\ Len(outstanding) <= 1
    /\ outstanding # <<>> =>
           pc \in {"vm_start", "vm_command", "vm_query", "vm_list", "rec_refresh",
                   "rec_refresh_poll", "rec_list", "rec_token", "rec_submit", "rec_poll"}
    /\ pc \in {"vm_sleep", "vm_done", "vm_error", "rec_refresh_sleep", "rec_sleep",
                "rec_done", "rec_error", "rec_panic"} => outstanding = <<>>

\* the second instance view of the second round is outstanding
C11_Witness ==
    /\ pc = "vm_query"
    /\ rounds = 1
    /\ Len(vm_names) = 2
    /\ outstanding = <<Call("get_instance_view", 2)>>

\* ------------------------------------------------------------------------
\* Claims about the handle located from a response (SpecLoc, SpecRec)
\* ------------------------------------------------------------------------
\* the response to a submission has been received and its headers read
Responded == oplog # <<>> /\ oplog[1].ev = "submit" /\ oplog[1].ok

\* the locating ended the command: by an error returned, or by a panic
LocateFailed == Responded /\ Len(oplog) = 1 /\ pc \in {"rec_error", "rec_panic"}

\* a handle was built and given to the poll loop
HandleBuilt == Responded /\ ~LocateFailed

\* the header the handle URL is to be read from
HandleHeader(h) ==
    IF h.azure_asyncoperation # None THEN h.azure_asyncoperation ELSE h.location

\* the text after the last "/" of a path
AfterLastSlash(path) ==
    LET slashes == {i \in 1..Len(path) : path[i] = "/"} IN
    IF slashes = {} THEN path
    ELSE SubSeq(path, (CHOOSE i \in slashes : \A j \in slashes : j <= i) + 1, Len(path))

\* the header names a well-formed URL, in text the HTTP client can read
NamesUrl(h) ==
    /\ HandleHeader(h) # None
    /\ ToStrOk(Unwrap(HandleHeader(h)))
    /\ UrlParse(Unwrap(HandleHeader(h))).ok

\* C12 (as claimed): a located URL whose final path segment is empty or
\* missing makes the locating fail with InvalidOperationHandle, and no status
\* query is ever made with an empty operation id.
C12_EmptySegmentRejected ==
    /\ (/\ Responded
        /\ NamesUrl(headers)
        /\ LET url == UrlParse(Unwrap(HandleHeader(headers))) IN
           ~url.base \/ AfterLastSlash(url.path) = <<>>)
           => (LocateFailed /\ pc = "rec_error" /\ err = "InvalidOperationHandle")
    /\ \A i \in 1..Len(oplog) : oplog[i].ev = "query" => oplog[i].id # <<>>

\* text that is no integer at all: not an optional "+" followed by digits
NotAnInteger(s) ==
    LET body == IF s # <<>> /\ Head(s) = "+" THEN Tail(s) ELSE s IN
    body = <<>> \/ \E i \in 1..Len(body) : ~IsDigit(body[i])

\* C13 (as claimed): at either place, when the handle URL and its operation
\* id can be located and a retry-after header is present whose value is no
\* non-negative integer, a handle is built and its interval is 60 seconds.
C13_UnparseableRetryFallsBack ==
    (/\ Responded
     /\ NamesUrl(headers)
     /\ UrlParse(Unwrap(HandleHeader(headers))).base
     /\ headers.retry_after # None
     /\ NotAnInteger(Unwrap(headers.retry_after)))
        => (HandleBuilt /\ retry_secs = 60)

RECURSIVE Pow10(_)
Pow10(k) == IF k = 0 THEN 1 ELSE 10 * Pow10(k - 1)

RECURSIVE PlaceValue(_)
\* the number a string of digits denotes: each digit times its power of ten
PlaceValue(s) ==
    IF s = <<>> THEN 0
    ELSE DigitVal(Head(s)) * Pow10(Len(s) - 1) + PlaceValue(Tail(s))

\* the digits of a retry-after value, without the "+" it may start with
Unsigned(s) == IF s # <<>> /\ Head(s) = "+" THEN Tail(s) ELSE s

\* text that denotes a non-negative integer of 64 bits, the seconds of a
\* Duration
IsSeconds(s) ==
    /\ Unsigned(s) # <<>>
    /\ \A i \in 1..Len(Unsigned(s)) : IsDigit(Unsigned(s)[i])
    /\ ~Overflows(StripZeros(Unsigned(s)))

\* C14: at either place, when the handle URL and its operation id can be
\* located, a handle is built whose interval is exactly 60 seconds if there
\* is no retry-after header, and exactly n seconds if the header's value is
\* the non-negative integer n.
C14_IntervalFromRetryAfter ==
    (/\ Responded
     /\ NamesUrl(headers)
     /\ UrlParse(Unwrap(HandleHeader(headers))).base)
        => /\ headers.retry_after = None => (HandleBuilt /\ retry_secs = 60)
           /\ (headers.retry_after # None /\ IsSeconds(Unwrap(headers.retry_after))) =>
                  /\ HandleBuilt
                  /\ retry_secs = PlaceValue(Unsigned(Unwrap(headers.retry_after)))

\* the handle of an item was built with retry-after: 009
C14_Witness ==
    /\ pc = "rec_sleep"
    /\ oplog[1].item = 1
    /\ headers.retry_after = Some(<<"0", "0", "9">>)
    /\ retry_secs = 9

\* C15: a handle that was built has its URL from azure-asyncoperation
\* whenever the response has that header (a well-formed URL then), whatever
\* location holds, and from location only when azure-asyncoperation is
\* absent: the operation id is the last path segment of that header's URL.
C15_AsyncOperationPreferred ==
    HandleBuilt =>
        IF headers.azure_asyncoperation # None
        THEN /\ UrlParse(Unwrap(headers.azure_asyncoperation)).ok
             /\ operation_id = AfterLastSlash(UrlParse(Unwrap(headers.azure_asyncoperation)).path)
        ELSE /\ headers.location # None
             /\ UrlParse(Unwrap(headers.location)).ok
             /\ operation_id = AfterLastSlash(UrlParse(Unwrap(headers.location)).path)

\* the refresh response names two operations: the handle is the one of
\* azure-asyncoperation
C15_Witness ==
    /\ pc = "rec_refresh_sleep"
    /\ headers.azure_asyncoperation = Some(U_abc123)
    /\ headers.location = Some(U_ops42)
    /\ operation_id = <<"a", "b", "c", "1", "2", "3">>

\* C16: whenever the response to a submission, the refresh or an item's, has
\* neither an azure-asyncoperation nor a location header, whatever else it
\* has, the command has ended with MissingLocationHeader: no handle was
\* built, no sleep or query followed the submission, and none can follow.
C16_NoHandleNoPoll ==
    (Responded /\ headers.azure_asyncoperation = None /\ headers.location = None) =>
        /\ pc = "rec_error"
        /\ err = "MissingLocationHeader"
        /\ oplog = <<Event("submit", oplog[1].item, 0, <<>>, TRUE)>>
        /\ oplog[1].item = 0 => (operation_id = <<>> /\ retry_secs = 0)
        /\ ~ENABLED NextRec

\* the refresh response had a retry-after header only, and not a number
C16_Witness ==
    /\ pc = "rec_error"
    /\ Responded
    /\ oplog[1].item = 0
    /\ headers = Headers(None, None, Some(<<"s", "o", "o", "n">>))
    /\ err = "MissingLocationHeader"

C18_QueryUsesLastSegment ==
    \A i \in 1..Len(oplog) :
        oplog[i].ev = "query" =>
            /\ Responded
            /\ HandleHeader(headers) # None
            /\ oplog[i].id = AfterLastSlash(UrlParse(Unwrap(HandleHeader(headers))).path)
            /\ oplog[i].id = operation_id

\* the second item was queried twice with abc123, of https://x/r/abc123?v=1
C18_Witness ==
    /\ Len(oplog) = 5
    /\ oplog[1].item = 2
    /\ headers.azure_asyncoperation = Some(U_abc123)
    /\ oplog[3].id = <<"a", "b", "c", "1", "2", "3">>
    /\ oplog[5].id = <<"a", "b", "c", "1", "2", "3">>

\* ------------------------------------------------------------------------
\* Claims about the refresh wait (checked under SpecRec)
\* ------------------------------------------------------------------------
C19_Step ==
    /\ (pc = "rec_refresh_poll" /\ pc' # "rec_error") =>
           /\ oplog' = Append(oplog, Event("query", 0, 0, operation_id, TRUE))
           /\ code' = 204 <=> pc' = "rec_list"
           /\ code' # 204 <=> pc' = "rec_refresh_sleep"
    /\ pc = "rec_refresh_sleep" =>
           /\ pc' = "rec_refresh_poll"
           /\ oplog' = Append(oplog, Event("sleep", 0, retry_secs, <<>>, TRUE))
           /\ code' = code

\* C19: a refresh-result query that returns ends the wait exactly when its
\* status code is 204: then the command goes on to list the machines; after
\* any other code it sleeps, and the sleep is followed by another query.
C19_RefreshWaitEndsOn204 == [][C19_Step]_vars

\* the wait ended with the second query: the first did not answer 204
C19_Witness ==
    /\ pc = "rec_list"
    /\ code = 204
    /\ Len(oplog) = 5
    /\ oplog[1].item = 0
    /\ oplog[3].ev = "query"

\* ------------------------------------------------------------------------
\* More claims about send_vm_command (checked under SpecVm)
\* ------------------------------------------------------------------------
RECURSIVE IsSubSeq(_, _)
\* a is b with some of its elements left out
IsSubSeq(a, b) ==
    IF a = <<>> THEN TRUE
    ELSE IF b = <<>> THEN FALSE
    ELSE IF Head(a) = Head(b) THEN IsSubSeq(Tail(a), Tail(b))
    ELSE IsSubSeq(a, Tail(b))

C20_Step ==
    pc # "vm_start" =>
        /\ IsSubSeq(vm_names', vm_names)
        /\ Len(vm_names') <= Len(vm_names)
        /\ completed' >= completed

\* C20: once the names of the batch are resolved, every step of the command
\* leaves in remaining a sub-sequence of what it held (names leave, none
\* enters, the order stays), and completed never decreases.
C20_RemainingShrinks == [][C20_Step]_vars

\* after two rounds the first of two names remains: the second left first
C20_Witness ==
    /\ pc = "vm_sleep"
    /\ rounds = 2
    /\ initial = <<"vm-a", "vm-b">>
    /\ vm_names = <<"vm-a">>
    /\ completed = 1

\* the command has left the convergence loop
LoopEnded ==
    \/ pc \in {"vm_list", "vm_done"}
    \/ pc = "vm_error" /\ failed.op = "list_vms_with_instance_view"

\* C21: whatever the initial list, once every resource has answered the
\* target status in the first round, the loop has ended after that one
\* round: each resource was asked once, in list order, no sleep was taken,
\* completed = total and remaining is empty.
C21_OneRoundConvergence ==
    (/\ PollingEntered
     /\ Len(asked) >= Len(initial)
     /\ \A i \in 1..Len(initial) : asked[i].ok /\ asked[i].done)
        => /\ LoopEnded
           /\ rounds = 1
           /\ sleeps = 0
           /\ Len(asked) = Len(initial)
           /\ \A i \in 1..Len(initial) : asked[i].name = initial[i]
           /\ completed = total
           /\ total = Len(initial)
           /\ vm_names = <<>>

\* two machines, both at the target in the first round
C21_Witness ==
    /\ pc = "vm_done"
    /\ initial = <<"vm-b", "vm-a">>
    /\ Len(asked) = 2
    /\ asked[1].done /\ asked[2].done
    /\ completed = 2

\* the number of instance views of name that answered the target status
DoneCount(log, name) ==
    Cardinality({i \in 1..Len(log) : log[i].name = name /\ log[i].ok /\ log[i].done})

\* the names answered done in the round under way, not yet taken from remaining
Pending ==
    IF pc = "vm_query" \/ (pc = "vm_error" /\ failed.op = "query") THEN complete ELSE <<>>

\* C22: a resource leaves remaining at the end of the round in which it
\* answered the target status and not before: remaining holds each name as
\* often as the initial list less the times it answered done in a finished
\* round, completed counts those answers, and a name is not asked about again
\* once it has answered done as often as the list holds it.
C22_LeavesWhenDone ==
    PollingEntered =>
        /\ \A n \in Names :
               Count(vm_names, n) = Count(initial, n) - DoneCount(asked, n) + Count(Pending, n)
        /\ completed + Len(Pending) =
               Cardinality({i \in 1..Len(asked) : asked[i].ok /\ asked[i].done})
        /\ \A j \in 1..Len(asked) :
               DoneCount(SubSeq(asked, 1, j - 1), asked[j].name) < Count(initial, asked[j].name)

\* vm-a answers the target in round 2 and vm-b in round 3
C22_Witness ==
    /\ pc = "vm_list"
    /\ initial = <<"vm-a", "vm-b">>
    /\ asked = <<Asked("vm-a", FALSE, TRUE), Asked("vm-b", FALSE, TRUE),
                 Asked("vm-a", TRUE, TRUE), Asked("vm-b", FALSE, TRUE),
                 Asked("vm-b", TRUE, TRUE)>>
    /\ completed = 2
    /\ vm_names = <<>>

\* C23: the loop has ended only if remaining is empty, and a round that
\* leaves a name in remaining is followed by a sleep and another round
\* however many rounds were made: every name still in remaining has been
\* asked about in every round so far.
C23_EndsOnlyWhenEmpty ==
    /\ LoopEnded => vm_names = <<>>
    /\ pc = "vm_sleep" =>
           /\ vm_names # <<>>
           /\ sleeps = rounds - 1
           /\ rounds < MaxRounds => ENABLED SleepVm
           /\ \A n \in Names :
                  Cardinality({i \in 1..Len(asked) : asked[i].name = n})
                      >= rounds * Count(vm_names, n)

\* neither of two machines has answered the target in any round made
C23_Witness ==
    /\ pc = "vm_sleep"
    /\ rounds = MaxRounds
    /\ Len(initial) = 2
    /\ vm_names = initial
    /\ Len(asked) = 2 * MaxRounds

\* text has t as a run of consecutive characters
HasSub(text, t) ==
    \E i \in 1..(Len(text) - Len(t) + 1) : SubSeq(text, i, i + Len(t) - 1) = t

\* the positions of the status entries whose code contains "PowerState"
PowerEntries(v) ==
    {i \in 1..Len(v) :
        v[i].code # None
        /\ HasSub(Unwrap(v[i].code), <<"P", "o", "w", "e", "r", "S", "t", "a", "t", "e">>)}

\* the display status of the first of them, if there is one and it has one
PowerDisplay(v) ==
    IF PowerEntries(v) = {} THEN None
    ELSE v[CHOOSE i \in PowerEntries(v) : \A j \in PowerEntries(v) : i <= j].display_status

\* the target string of the command
Target ==
    IF command = "Start" THEN <<"V", "M", " ", "r", "u", "n", "n", "i", "n", "g">>
    ELSE <<"V", "M", " ", "d", "e", "a", "l", "l", "o", "c", "a", "t", "e", "d">>

\* C24: the resource last asked about counted as done iff the display status
\* of the first status entry of its instance view whose code contains
\* "PowerState" contains the target string; without such an entry, or without
\* its display status, "Unknown" is evaluated and the resource is not done.
C24_DonePredicate ==
    (asked # <<>> /\ asked[Len(asked)].ok) =>
        LET done == asked[Len(asked)].done IN
        /\ PowerDisplay(view) # None => (done <=> HasSub(Unwrap(PowerDisplay(view)), Target))
        /\ PowerDisplay(view) = None =>
               (/\ done <=> HasSub(<<"U", "n", "k", "n", "o", "w", "n">>, Target)
                /\ ~done)

\* a display status that contains the target of `vm start` after a prefix
C24_Witness ==
    /\ asked # <<>>
    /\ asked[Len(asked)].ok
    /\ asked[Len(asked)].done
    /\ command = "Start"
    /\ view = <<StatusEntry(Some(C_Power), Some(D_Prefixed))>>

RECURSIVE Ascending(_)
\* the numbers of a set, least first
Ascending(S) ==
    IF S = {} THEN <<>>
    ELSE LET least == CHOOSE x \in S : \A y \in S : x <= y
         IN <<least>> \o Ascending(S \ {least})

RECURSIVE Leave(_, _)
\* the places of the initial list still remaining when, for each name of
\* gone in turn, the first place holding that name has left
Leave(places, gone) ==
    IF gone = <<>> THEN places
    ELSE LET held == {p \in places : initial[p] = Head(gone)} IN
         Leave(IF held = {} THEN places
               ELSE places \ {CHOOSE p \in held : \A q \in held : p <= q},
               Tail(gone))

RECURSIVE AskedNames(_, _, _, _)
\* the names asked about, answer by answer, when every round goes through
\* the remaining places of the initial list in ascending order: places
\* remain at the start of the round, turn are those not asked yet, gone the
\* names answered done in the round
AskedNames(places, turn, gone, answers) ==
    IF answers = <<>> \/ turn = <<>> THEN <<>>
    ELSE LET name == initial[Head(turn)]
             a == Head(answers)
             left == IF a.done THEN Append(gone, name) ELSE gone
             rest == Leave(places, left)
         IN <<name>> \o
            (IF ~a.ok THEN <<>>
             ELSE IF Len(turn) > 1 THEN AskedNames(places, Tail(turn), left, Tail(answers))
             ELSE AskedNames(rest, Ascending(rest), <<>>, Tail(answers)))

C29_CommandBeforePolling ==
    /\ Len(commanded) <= Len(initial)
    /\ commanded = SubSeq(initial, 1, Len(commanded))
    /\ (asked # <<>> \/ rounds > 0 \/ PollingEntered) => commanded = initial
    /\ failed.op = "command" =>
          /\ pc = "vm_error"
          /\ Len(commanded) < Len(initial)
          /\ failed.name = Some(initial[Len(commanded) + 1])
          /\ asked = <<>>
          /\ rounds = 0
          /\ ~ENABLED (CommandVm \/ QueryVm \/ SleepVm)

\* the request for the first of two VMs failed
C29_Witness ==
    /\ pc = "vm_error"
    /\ failed.op = "command"
    /\ initial = <<"vm-a", "vm-b">>
    /\ failed.name = Some("vm-a")
    /\ commanded = <<>>

\* ------------------------------------------------------------------------
\* Claims about the selection (checked under SpecSel)
\* ------------------------------------------------------------------------
\* the filter in force: no names given means the empty filter
NameFilter == IF names = None THEN <<>> ELSE Unwrap(names)

\* the listed machine at place i passes the name filter
PassesFilter(i) ==
    NameFilter = <<>> \/ \E j \in 1..Len(NameFilter) : listed[i].name = Some(NameFilter[j])

\* values holds the listed machines at the places of kept, in list order
SelectedAre(kept) ==
    LET place == Ascending(kept) IN
    /\ Len(values) = Len(place)
    /\ \A k \in 1..Len(place) :
          /\ listed[place[k]].name = Some(values[k].name)
          /\ listed[place[k]].id = Some(values[k].id)
    /\ item_total = Len(values)

\* C26 as stated: the items are every listed machine that passes the name
\* filter (all of them when no name is given), in list order, and total is
\* their number.
C26_SelectsEveryListed ==
    pc = "rec_token" => SelectedAre({i \in 1..Len(listed) : PassesFilter(i)})

\* C26: the items are the listed machines that pass the name filter and
\* carry both a name and an id, in list order, and total is their number.
C26_SelectsNamedListed ==
    pc = "rec_token" =>
        SelectedAre({i \in 1..Len(listed) :
                        PassesFilter(i) /\ listed[i].name # None /\ listed[i].id # None})

\* no filter, a machine without a name listed before vm-a: vm-a alone is taken
C26_Witness ==
    /\ pc = "rec_token"
    /\ names = None
    /\ listed = <<Vm(None, Some("id-x")), Vm(Some("vm-a"), Some("id-a"))>>
    /\ item_total = 1
    /\ Len(values) = 1
    /\ values[1].name = "vm-a"

\* ------------------------------------------------------------------------
\* Claims about the registration loop (checked under SpecRec)
\* ------------------------------------------------------------------------
C27_Step ==
    /\ (operation_id' # operation_id \/ retry_secs' # retry_secs) =>
          /\ pc \in {"rec_refresh", "rec_submit"}
          /\ oplog' = <<Event("submit", idx, 0, <<>>, TRUE)>>
          /\ pc' \in {"rec_refresh_sleep", "rec_sleep"}
    /\ pc = "rec_poll" =>
          /\ UNCHANGED <<operation_id, retry_secs, headers>>
          /\ oplog[1] = Event("submit", idx, 0, <<>>, TRUE)
          /\ HandleHeader(headers) # None
          /\ operation_id = AfterLastSlash(UrlParse(Unwrap(HandleHeader(headers))).path)
          /\ Len(oplog') = Len(oplog) + 1
          /\ oplog'[Len(oplog')].ev = "query"
          /\ oplog'[Len(oplog')].item = idx
          /\ oplog'[Len(oplog')].id = operation_id

\* C27: the operation id and the retry interval are written only by the
\* step that receives a submission's response, which also begins the
\* operation's log; every status query of item idx carries the id read from
\* the response to item idx's own submission, and the step that receives a
\* poll response leaves id, interval and headers as they were.
C27_HandleImmutable == [][C27_Step]_vars

\* the second item was queried twice with the handle of its own response
C27_Witness ==
    /\ Len(oplog) = 5
    /\ oplog[1].item = 2
    /\ headers = Headers(None, Some(U_ops42), None)
    /\ operation_id = <<"4", "2">>
    /\ retry_secs = 60
    /\ oplog[3].id = <<"4", "2">>
    /\ oplog[5].id = <<"4", "2">>
    /\ oplog[4].secs = 60

\* C28: when a status query of item k has failed the command has ended with
\* that error: no request can follow, so no later item is submitted; the
\* items before k all reached a terminal status, count is the number of
\* them that Succeeded, and the spinner text last set shows that count.
C28_PollErrorEndsBatch ==
    (oplog # <<>> /\ oplog[1].item >= 1 /\ Len(oplog) >= 3
        /\ oplog[Len(oplog)].ev = "query" /\ ~oplog[Len(oplog)].ok) =>
        /\ pc = "rec_error"
        /\ err = "Transport"
        /\ ~ENABLED NextRec
        /\ idx = oplog[1].item
        /\ Len(terminal) = idx - 1
        /\ count = SucceededCount(terminal)
        /\ spinner = Protected(count, Len(values))

\* the first of two items Succeeded and a status query of the second failed
C28_Witness ==
    /\ Len(oplog) = 3
    /\ pc = "rec_error"
    /\ oplog[1].item = 2
    /\ ~oplog[3].ok
    /\ Len(values) = 2
    /\ count = 1
    /\ spinner = Protected(1, 2)

\* the refresh has been observed complete: its last query returned 204
RefreshComplete == code = NoContent

\* C30: the listing, the token request, every registration and every status
\* query are made, and the selection exists, only once a refresh-result query
\* has returned 204; a command that ended without that 204 (the refresh
\* submission failed, no handle could be located, or a refresh-result query
\* failed) ended there: nothing was listed or selected, no registration was
\* submitted, and no request can follow.
C30_RefreshFirst ==
    /\ (\/ pc \in {"rec_list", "rec_token", "rec_submit", "rec_sleep", "rec_poll", "rec_done"}
        \/ spinner # None
        \/ idx >= 1
        \/ (oplog # <<>> /\ oplog[1].item >= 1)) => RefreshComplete
    /\ \A i \in 1..Len(outstanding) :
          outstanding[i].op \in {"list_vms", "get_token", "put_protected_item",
                                 "operation_statuses"} => RefreshComplete
    /\ (pc \in {"rec_error", "rec_panic"} /\ ~RefreshComplete) =>
          /\ oplog # <<>>
          /\ oplog[1].item = 0
          /\ \/ Len(oplog) = 1
             \/ oplog[Len(oplog)].ev = "query" /\ ~oplog[Len(oplog)].ok
          /\ values = <<>>
          /\ spinner = None
          /\ idx = 0
          /\ terminal = <<>>
          /\ ~ENABLED NextRec

\* the second refresh-result query failed after a first that returned 202
C30_Witness ==
    /\ Len(oplog) = 5
    /\ pc = "rec_error"
    /\ oplog[1].item = 0
    /\ oplog[3].ok
    /\ ~oplog[5].ok
    /\ code = 202
    /\ values = <<>>

\* ------------------------------------------------------------------------
\* send_vm_command with machines that settle at the target state
\* ------------------------------------------------------------------------
\* vm_client.rs:43-55: one get_instance_view that returns Ok, from a machine
\* that shows the target again once it has shown it, and that has reached
\* it by the last round the bound on rounds leaves
QueryVmSettling ==
    /\ QueryVm
    /\ LET answer == asked'[Len(asked')] IN
         /\ answer.ok
         /\ (rounds = MaxRounds - 1 \/ DoneCount(asked, answer.name) > 0) => answer.done

NextVmLive == VmStart \/ CommandVm \/ QueryVmSettling \/ SleepVm \/ ListFinalVm

\* the runtime resumes the command when the call it awaits has returned and
\* when the 2-second sleep is over
FairVm == WF_vars(QueryVmSettling) /\ WF_vars(SleepVm)

SpecVmLive == InitVm /\ [][NextVmLive]_vars /\ FairVm

TrackerDone == LoopEnded /\ vm_names = <<>> /\ completed = total

\* C31: when no status query fails and every machine comes to show the
\* target state and goes on showing it, a convergence loop that has been
\* entered is eventually left with remaining empty and completed = total.
C31_TrackerTerminates == PollingEntered ~> TrackerDone

\* two machines, the loop left after the last round the bound leaves
C31_Witness ==
    /\ pc = "vm_list"
    /\ rounds = MaxRounds
    /\ Len(initial) = 2
    /\ Len(asked) >= 4
    /\ vm_names = <<>>
    /\ completed = 2
    /\ total = 2

\* ------------------------------------------------------------------------
\* process_recovery_cmd with remote calls that return Ok and responses that
\* carry a handle; an operation has reported its end (204, a terminal
\* status) by the last query the bound on polls leaves
\* ------------------------------------------------------------------------
\* the step did not end in an error returned by ? or in a panic
Unfailing == pc' \notin {"rec_error", "rec_panic"}

\* main.rs:525-554
RefreshSubmitOk == RefreshSubmit /\ Unfailing

\* main.rs:559-570
RefreshPollOk == RefreshPoll /\ Unfailing

\* main.rs:572-601
ListVmsOk == ListVms /\ Unfailing

\* main.rs:606-621
GetTokenOk == GetToken /\ Unfailing

\* main.rs:646-670
SubmitOk == Submit /\ Unfailing

\* main.rs:674-724
ItemPollOk == ItemPoll /\ Unfailing

NextRecLive ==
    \/ RefreshSubmitOk \/ RefreshSleep \/ RefreshPollOk \/ ListVmsOk \/ GetTokenOk
    \/ SubmitOk \/ ItemSleep \/ ItemPollOk

\* the runtime resumes the command at each await of the batch: when the
\* call awaited has returned (what it returns is NextRecLive's part) and when
\* the sleep is over
FairRec ==
    /\ WF_vars(GetToken)
    /\ WF_vars(Submit)
    /\ WF_vars(ItemSleep)
    /\ WF_vars(ItemPoll)

SpecRecLive == InitRec /\ [][NextRecLive]_vars /\ FairRec

\* the registration loop is over and every selected item has ended
BatchDone ==
    /\ pc = "rec_done"
    /\ item_total = Len(values)
    /\ idx = Len(values)
    /\ Len(terminal) = Len(values)
    /\ \A i \in 1..Len(terminal) : IsTerminal(terminal[i])
    /\ count = SucceededCount(terminal)

C32_Step ==
    /\ pc = "rec_submit" =>
          /\ idx' = idx
          /\ Len(terminal) = idx - 1
          /\ oplog' = <<Event("submit", idx, 0, <<>>, TRUE)>>
    /\ pc' = "rec_submit" =>
          /\ pc \in {"rec_token", "rec_poll"}
          /\ idx' = idx + 1
          /\ idx' <= Len(values)
    /\ terminal' # terminal =>
          /\ pc = "rec_poll"
          /\ Len(terminal') = idx
          /\ Len(terminal) = idx - 1

\* C32: when every remote call returns Ok, every submission's response
\* carries a handle and every operation comes to report a terminal status,
\* a batch whose items have been selected eventually ends with every item
\* ended; each item is submitted once (the loop enters the submission only
\* by moving on to the next item) and polled to one terminal status; count
\* never exceeds total.
C32_BatchTerminates ==
    /\ [](count <= item_total)
    /\ [][C32_Step]_vars
    /\ (pc = "rec_token") ~> BatchDone

\* two items, both ended, one of them Succeeded after a first answer InProgress
C32_Witness ==
    /\ pc = "rec_done"
    /\ Len(values) = 2
    /\ Len(terminal) = 2
    /\ count = 1
    /\ Len(oplog) = 5
    /\ oplog[1].item = 2
    /\ Unwrap(terminal[2]).tag = "Succeeded"

====
